---- MODULE Spec2Model ----
(***************************************************************************)
(* Model of the row-analysis pipeline of PersonaScope (src/main.py):       *)
(* Worker.run, executed on a background thread, and the caller's Stop      *)
(* button (PersonaScopeApp.stop_analysis) that writes Worker.is_running.   *)
(***************************************************************************)
EXTENDS Integers, Sequences, FiniteSets, TLC

(* ------------------------------------------------------------------ *)
(* Bounds                                                              *)
(* ------------------------------------------------------------------ *)

\* Largest number of data rows in a loaded spreadsheet.
MaxRows == 3

\* Largest number of tokens in an input path.
MaxPathLen == 4

\* Largest number of workers start_analysis creates in one session.
MaxWorkers == 2

\* Largest number of rows in a dataset of a session of several workers.
MaxSessionRows == 1

(* ------------------------------------------------------------------ *)
(* Worker configuration (Worker.__init__)                              *)
(* ------------------------------------------------------------------ *)

fullname_col == "Full Name"
username_col == "Username"

\* time.sleep(3)
SleepSeconds == 3

(* ------------------------------------------------------------------ *)
(* Input spreadsheets                                                  *)
(* ------------------------------------------------------------------ *)

\* pandas' missing-cell marker
NaN == "NaN"

\* Header sets of the spreadsheets the loader may return.
HeaderSets ==
  { {fullname_col, username_col, "Followers"},
    {fullname_col, "Followers"},
    {username_col, "Followers"},
    {"Followers"} }

\* Cell of row i (1-based) in column c of the sample table: rows cycle
\* through (name, handle), (missing, handle), (name, missing),
\* (missing, missing).
SampleCell(i, c) ==
  IF c = fullname_col THEN (IF i % 4 \in {1, 3} THEN "Ann Lee" ELSE NaN)
  ELSE IF c = username_col THEN (IF i % 4 \in {1, 2} THEN "ann_l" ELSE NaN)
  ELSE "10"

\* A loaded DataFrame: its columns and its rows in file order.
DataFrame(cols, n) ==
  [columns |-> cols,
   rows    |-> [i \in 1..n |-> [c \in cols |-> SampleCell(i, c)]]]

DataFrames == { DataFrame(cols, n) : cols \in HeaderSets, n \in 0..MaxRows }

\* Value of df before pd.read_csv / pd.read_excel has returned.
NoFrame == [columns |-> {}, rows |-> <<>>]

\* len(df)
len(df) == Len(df.rows)

\* Variant that passes the cell on as it was read.
NormalizeCell_Keep(x) == x

\* pd.isna(x) followed by the replacement with ""
NormalizeCell(x) == IF x = NaN THEN "" ELSE x

(* ------------------------------------------------------------------ *)
(* Responses of the inference collaborator                             *)
(* ------------------------------------------------------------------ *)

Attributes ==
  {"predicted_gender", "predicted_origin", "deduced_language", "user_persona"}

\* A Python dict with string keys: a function from its keys.
EmptyDict == [k \in {} |-> "None"]

\* A JSON member value: an object (isdict, with members d) or a scalar
\* (with text s).
Dict(d)    == [isdict |-> TRUE,  d |-> d, s |-> "{...}"]
Str(s)     == [isdict |-> FALSE, d |-> EmptyDict, s |-> s]
Pair       == Dict([value |-> "Male", confidence |-> "0.9"])
NoConfPair == Dict([value |-> "Male"])
Scalar     == Str("Male")

\* A parsed JSON document.  type is the Python type json.loads returns;
\* fields are the members of an object; contains_error is the outcome of
\* ('error' in document) for a list or a str.
JsonObject(fields) ==
  [type |-> "dict", fields |-> fields, contains_error |-> "error" \in DOMAIN fields]
JsonOther(type, haserr) ==
  [type |-> type, fields |-> EmptyDict, contains_error |-> haserr]

FullObject      == JsonObject([a \in Attributes |-> Pair])
MissingAttr     == JsonObject([a \in Attributes \ {"user_persona"} |-> Pair])
NonObjectAttr   == JsonObject([a \in Attributes |->
                                 IF a = "predicted_gender" THEN Scalar ELSE Pair])
MissingConf     == JsonObject([a \in Attributes |->
                                 IF a = "predicted_origin" THEN NoConfPair ELSE Pair])
ErrorObject     == JsonObject([a \in Attributes \cup {"error"} |->
                                 IF a = "error" THEN Str("quota exceeded") ELSE Pair])
EmptyObject     == JsonObject(EmptyDict)
JsonArray       == JsonOther("list", FALSE)
JsonString      == JsonOther("str", FALSE)
JsonErrorString == JsonOther("str", TRUE)
JsonNumber      == JsonOther("int", FALSE)

JsonDocuments ==
  { FullObject, MissingAttr, NonObjectAttr, MissingConf, ErrorObject,
    EmptyObject, JsonArray, JsonString, JsonErrorString, JsonNumber }

\* The response text is a sequence of tokens: the code-fence markers
\* (three backquotes followed by json, and three backquotes alone), a JSON
\* document, or text that is not JSON.
FenceJson   == [tok |-> "fence_json", doc |-> JsonNumber]
Fence       == [tok |-> "fence",      doc |-> JsonNumber]
Prose       == [tok |-> "prose",      doc |-> JsonNumber]
Json(doc)   == [tok |-> "json",       doc |-> doc]

\* What model.generate_content(prompt) / response.text can do.
Raises     == [raises |-> TRUE,  text |-> <<>>]
Text(toks) == [raises |-> FALSE, text |-> toks]

Responses ==
  { Raises, Text(<<>>), Text(<<Prose>>), Text(<<Prose, Json(FullObject)>>),
    Text(<<FenceJson, Json(FullObject), Fence>>) }
  \cup { Text(<<Json(doc)>>) : doc \in JsonDocuments }

\* Value of response while no reply is held by the worker.
NoResponse == [raises |-> FALSE, text |-> <<Fence>>]

(* ------------------------------------------------------------------ *)
(* Parsing and flattening (Worker.run, lines 76-92)                    *)
(* ------------------------------------------------------------------ *)

\* response.text.replace(fence_json, '').replace(fence, '').strip()
StripFences(text) ==
  SelectSeq(text, LAMBDA t : t.tok \notin {"fence_json", "fence"})

\* json.loads(cleaned) returns a document iff cleaned is exactly one JSON
\* document; it raises JSONDecodeError on empty text, on prose and on
\* trailing or leading extra data.
JsonLoadsOk(cleaned) == Len(cleaned) = 1 /\ cleaned[1].tok = "json"

\* Whether the try block (generate_content, text, json.loads) raises.
CallFailed(resp) == resp.raises \/ ~JsonLoadsOk(StripFences(resp.text))

\* str(e) of the exception caught by the inner handler
ErrorMessage(resp) ==
  IF resp.raises THEN "ServiceUnavailable" ELSE "JSONDecodeError"

\* insights after the try/except of lines 76-82
Insights(resp) ==
  IF CallFailed(resp)
  THEN JsonObject([k \in {"error"} |-> Str(ErrorMessage(resp))])
  ELSE StripFences(resp.text)[1].doc

\* dict.get(key): the member or None
Get(d, key) == IF key \in DOMAIN d THEN d[key] ELSE "None"

\* Lines 84-91.  raised: an exception escapes to the outer handler
\* ('in' on an int, .items() on a list or str, ['error'] on a list or str);
\* flat: flattened_insights otherwise.
Flatten(insights) ==
  IF insights.type = "int"
  THEN [raised |-> TRUE, flat |-> EmptyDict]
  ELSE IF ~insights.contains_error
  THEN IF insights.type # "dict"
       THEN [raised |-> TRUE, flat |-> EmptyDict]
       ELSE LET fields == insights.fields
                dk     == { k \in DOMAIN fields : fields[k].isdict }
                cols   == { k \o "_value" : k \in dk }
                            \cup { k \o "_confidence" : k \in dk }
                KeyOf(c) == CHOOSE k \in dk :
                              c \in {k \o "_value", k \o "_confidence"}
            IN  [raised |-> FALSE,
                 flat   |-> [c \in cols |->
                               IF c = KeyOf(c) \o "_value"
                               THEN Get(fields[KeyOf(c)].d, "value")
                               ELSE Get(fields[KeyOf(c)].d, "confidence")]]
  ELSE IF insights.type # "dict"
       THEN [raised |-> TRUE, flat |-> EmptyDict]
       ELSE [raised |-> FALSE,
             flat   |-> [k \in {"error"} |-> insights.fields["error"].s]]

(* ------------------------------------------------------------------ *)
(* Output assembly (Worker.run, lines 97-98)                           *)
(* ------------------------------------------------------------------ *)

Max(a, b) == IF a >= b THEN a ELSE b

\* pd.DataFrame(results): one row per buffered dict, one column per key
\* that occurs in any dict, NaN where a dict lacks the key.
ResultsFrame(res) ==
  LET cols == UNION { DOMAIN res[i] : i \in 1..Len(res) }
  IN  [columns |-> cols,
       rows    |-> [i \in 1..Len(res) |->
                      [c \in cols |-> IF c \in DOMAIN res[i] THEN res[i][c] ELSE NaN]]]

\* pd.concat([df.reset_index(drop=True), results_df.reset_index(drop=True)],
\* axis=1): rows are aligned on position; a position present on one side
\* only is padded with NaN on the other.
Concat(left, right) ==
  LET n == Max(Len(left.rows), Len(right.rows))
      Side(f, i) == IF i <= Len(f.rows) THEN f.rows[i] ELSE [c \in f.columns |-> NaN]
  IN  [i \in 1..n |-> [input |-> Side(left, i), derived |-> Side(right, i)]]

\* The output file: absent, or the rows that to_csv wrote.
NoFile == [written |-> FALSE, rows |-> <<>>]
File(rows) == [written |-> TRUE, rows |-> rows]

(* ------------------------------------------------------------------ *)
(* Output path (Worker.run, lines 100-103)                             *)
(* ------------------------------------------------------------------ *)

\* A path is a sequence of tokens: the separator "/", the dot ".", and
\* names, which stand for runs of other characters.
PathTokens == {"/", ".", "users", "_output", "csv"}

\* The path of the scenario: data/users.xlsx
ScenarioPath == <<"data", "/", "users", ".", "xlsx">>

\* The paths a worker may be constructed with.
InputPaths ==
  UNION { [1..n -> PathTokens] : n \in 0..MaxPathLen } \cup {ScenarioPath}

\* str.rfind(tok) + 1: the last position of tok in p, 0 if there is none.
RFind(p, tok) ==
  LET at == { i \in 1..Len(p) : p[i] = tok }
  IN  IF at = {} THEN 0 ELSE CHOOSE i \in at : \A j \in at : j <= i

\* head.rstrip('/')
RStripSep(head) ==
  LET keep == { i \in 1..Len(head) : head[i] # "/" }
  IN  SubSeq(head, 1, IF keep = {} THEN 0
                      ELSE CHOOSE i \in keep : \A j \in keep : j <= i)

\* os.path.dirname: everything up to the last separator, without trailing
\* separators unless it consists of separators only.
Dirname(p) ==
  LET head == SubSeq(p, 1, RFind(p, "/"))
  IN  IF head # <<>> /\ (\E i \in 1..Len(head) : head[i] # "/")
      THEN RStripSep(head)
      ELSE head

\* os.path.basename: everything after the last separator.
Basename(p) == SubSeq(p, RFind(p, "/") + 1, Len(p))

\* os.path.splitext: split at the last dot, provided it comes after the
\* last separator and is not one of the leading dots of the name.
SplitExt(p) ==
  LET sep == RFind(p, "/")
      dot == RFind(p, ".")
  IN  IF dot > sep /\ (\E j \in (sep + 1)..(dot - 1) : p[j] # ".")
      THEN <<SubSeq(p, 1, dot - 1), SubSeq(p, dot, Len(p))>>
      ELSE <<p, <<>> >>

\* os.path.join(a, b)
Join(a, b) ==
  IF b # <<>> /\ b[1] = "/" THEN b
  ELSE IF a = <<>> \/ a[Len(a)] = "/" THEN a \o b
  ELSE a \o <<"/">> \o b

\* The text "_output.csv" of line 103
OutputSuffix == <<"_output", ".", "csv">>

\* Variant that appends the suffix to the base name with its extension.
OutputPath_KeepExt(p) == Join(Dirname(p), Basename(p) \o OutputSuffix)

\* Lines 100-103
OutputPath(p) ==
  LET dir_name  == Dirname(p)
      base_name == Basename(p)
      file_name == SplitExt(base_name)[1]
  IN  Join(dir_name, file_name \o OutputSuffix)

\* Value of output_filepath before line 103 has run.
NoPath == <<"?">>

(* ------------------------------------------------------------------ *)
(* State                                                               *)
(* ------------------------------------------------------------------ *)

VARIABLES
  pc,           \* position of the worker thread inside Worker.run
  is_running,   \* Worker.is_running, the cancellation flag
  stop_button,  \* PersonaScopeApp.stop_button is enabled
  inbox,        \* finished/error signals queued for the caller's thread
  df,           \* the loaded DataFrame
  index,        \* loop variable of df.iterrows(); -1 before the first row
  response,     \* reply of the collaborator held by the worker
  results,      \* the results buffer
  log,          \* signals emitted by the worker so far, in order
  trace,        \* collaborator calls and sleeps made so far, in order
  output,       \* the output file
  stop_at,      \* phase of the run in which stop_analysis set the flag
  stop_point,   \* position of the run and number of calls issued when
                \* stop_analysis set the flag
  input_filepath,   \* Worker.input_filepath
  output_filepath,  \* output_filepath of Worker.run
  workers,      \* every Worker that start_analysis has created, in order
  ui,           \* PersonaScopeApp: buttons, combo boxes, self.worker
  signals       \* finished/error signals queued for the caller's thread,
                \* each with the worker that emitted it

vars == <<pc, is_running, stop_button, inbox, df, index, response, results,
          log, trace, output, stop_at, stop_point, input_filepath,
          output_filepath, workers, ui, signals>>

\* The session of the application, which the steps of a single run leave
\* alone.
fixed == <<input_filepath, workers, ui, signals>>

\* The single run followed in detail, which the session leaves alone.
run_vars == <<pc, is_running, stop_button, inbox, df, index, response,
              results, log, trace, output, stop_at, stop_point,
              input_filepath, output_filepath>>

\* PersonaScopeApp after __init__ and initUI (lines 113-188): no worker,
\* Run and Stop disabled, Browse enabled, empty combo boxes.
UiInit ==
  [run_button |-> FALSE, stop_button |-> FALSE, file_button |-> TRUE,
   combos |-> FALSE, worker |-> 0, alive |-> TRUE]

\* stop_point while stop_analysis has not been called.
NotStopped == [pc |-> "none", calls |-> 0]

\* Positions at which Worker.run has returned.
Terminal == {"finished", "cancelled", "failed"}

\* A signal emission.  row is the 1-based row the message names, 0 if none;
\* username is the username the message embeds, "" if none.
Event(sig, kind, row) ==
  [sig |-> sig, kind |-> kind, row |-> row, username |-> ""]

\* A per-row progress message: "Analyzing row i/n: username..." (line 60) or
\* "Warning: API call failed for username..." (line 81).
RowEvent(kind, row, username) ==
  [sig |-> "progress", kind |-> kind, row |-> row, username |-> username]

\* Entries of trace.
Call(full_name, username) ==
  [op |-> "call", full_name |-> full_name, username |-> username, seconds |-> 0]
Sleep(seconds) ==
  [op |-> "sleep", full_name |-> "", username |-> "", seconds |-> seconds]

\* The inference calls issued so far, in order.
Calls == SelectSeq(trace, LAMBDA t : t.op = "call")

\* State after start_analysis has constructed the worker and started its
\* thread: the flag is True, the Stop button is enabled.
Init ==
  /\ pc = "configure"
  /\ is_running = TRUE
  /\ stop_button = TRUE
  /\ inbox = <<>>
  /\ df = NoFrame
  /\ index = -1
  /\ response = NoResponse
  /\ results = <<>>
  /\ log = <<>>
  /\ trace = <<>>
  /\ output = NoFile
  /\ stop_at = "never"
  /\ stop_point = NotStopped
  /\ input_filepath = ScenarioPath
  /\ output_filepath = NoPath
  /\ workers = <<>>
  /\ ui = UiInit
  /\ signals = <<>>

(* ------------------------------------------------------------------ *)
(* Worker.run                                                          *)
(* ------------------------------------------------------------------ *)

\* The outer handler (lines 108-109): emit error and return.
Critical ==
  /\ pc' = "failed"
  /\ log' = Append(log, Event("error", "critical", 0))
  /\ inbox' = Append(inbox, "error")

\* Lines 29-31: configure the client; any exception goes to the outer handler.
Configure ==
  /\ pc = "configure"
  /\ \E ok \in BOOLEAN :
       IF ok
       THEN /\ pc' = "load"
            /\ log' = Append(log, Event("progress", "configured", 0))
            /\ inbox' = inbox
       ELSE Critical
  /\ UNCHANGED <<is_running, stop_button, df, index, response, results,
                 trace, output, stop_at>>
  /\ UNCHANGED <<output_filepath, stop_point>>
  /\ UNCHANGED fixed

\* Lines 33-38: read the file; a read failure goes to the outer handler.
Load ==
  /\ pc = "load"
  /\ \/ /\ \E d \in DataFrames : df' = d
        /\ pc' = "columns"
        /\ log' = Append(log, Event("progress", "loaded", 0))
        /\ inbox' = inbox
     \/ /\ Critical
        /\ df' = df
  /\ UNCHANGED <<is_running, stop_button, index, response, results,
                 trace, output, stop_at>>
  /\ UNCHANGED <<output_filepath, stop_point>>
  /\ UNCHANGED fixed

\* Variant of the column test that fails only when both columns are absent.
ColumnsMissing_BothOnly(columns) ==
  fullname_col \notin columns /\ username_col \notin columns

\* Line 40
ColumnsMissing(columns) ==
  fullname_col \notin columns \/ username_col \notin columns

\* Variant in which the column error is emitted without returning.
AfterColumnError_FallThrough == "check"

\* Position after the column error has been emitted (line 42: return).
AfterColumnError == "failed"

\* Lines 40-47
CheckColumns ==
  /\ pc = "columns"
  /\ IF ColumnsMissing(df.columns)
     THEN /\ log' = Append(log, Event("error", "column_error", 0))
          /\ inbox' = Append(inbox, "error")
          /\ pc' = AfterColumnError
     ELSE /\ log' = Append(log, Event("progress", "found", 0))
          /\ inbox' = inbox
          /\ pc' = "check"
  /\ results' = <<>>
  /\ UNCHANGED <<is_running, stop_button, df, index, response, trace,
                 output, stop_at>>
  /\ UNCHANGED <<output_filepath, stop_point>>
  /\ UNCHANGED fixed

\* Variant of the flag test that is skipped on the first row.
StopRequested_NotFirstRow(running, idx) == ~running /\ idx > 0

\* Line 50: the test made on the flag at the top of an iteration.
StopRequested(running, idx) == ~running

\* Lines 48-52: df.iterrows() yields the next row or is exhausted; the
\* flag is read once at the top of the iteration.
Checkpoint ==
  /\ pc = "check"
  /\ IF index + 1 >= len(df)
     THEN /\ pc' = "write"
          /\ UNCHANGED <<index, log>>
     ELSE /\ index' = index + 1
          /\ IF StopRequested(is_running, index + 1)
             THEN /\ log' = Append(log, Event("progress", "stopped", 0))
                  /\ pc' = "cancelled"
             ELSE /\ pc' = "body"
                  /\ log' = log
  /\ UNCHANGED <<is_running, stop_button, inbox, df, response, results,
                 trace, output, stop_at>>
  /\ UNCHANGED <<output_filepath, stop_point>>
  /\ UNCHANGED fixed

\* Lines 54-77: read and normalise the two cells, announce the row, build
\* the prompt and issue the inference call.
Request ==
  /\ pc = "body"
  /\ LET row       == df.rows[index + 1]
         full_name == NormalizeCell(row[fullname_col])
         username  == NormalizeCell(row[username_col])
     IN  /\ log' = Append(log, RowEvent("analyzing", index + 1, username))
         /\ trace' = Append(trace, Call(full_name, username))
  /\ pc' = "await"
  /\ UNCHANGED <<is_running, stop_button, inbox, df, index, response,
                 results, output, stop_at>>
  /\ UNCHANGED <<output_filepath, stop_point>>
  /\ UNCHANGED fixed

\* The collaborator answers the call in flight (or never does).
Reply ==
  /\ pc = "await"
  /\ \E r \in Responses : response' = r
  /\ pc' = "parse"
  /\ UNCHANGED <<is_running, stop_button, inbox, df, index, results, log,
                 trace, output, stop_at>>
  /\ UNCHANGED <<output_filepath, stop_point>>
  /\ UNCHANGED fixed

\* Variant that puts the newest result first.
RecordResult_Prepend(res, flat) == <<flat>> \o res

\* Variant that buffers nothing for a failed row.
RecordResult_DropFailed(res, flat) ==
  IF "error" \in DOMAIN flat THEN res ELSE Append(res, flat)

\* Line 92: results.append(flattened_insights)
RecordResult(res, flat) == Append(res, flat)

\* Variant in which the inner handler re-raises: a failed call ends the run.
AfterRow_AbortOnFailure(failed) == IF failed THEN "failed" ELSE "sleep"

\* Variant in which a failed call is retried for the same row.
AfterRow_RetryOnFailure(failed) == IF failed THEN "body" ELSE "sleep"

\* Variant in which the sleep is part of the try block: a failed call
\* goes straight to the next iteration.
AfterRow_NoSleepOnFailure(failed) == IF failed THEN "check" ELSE "sleep"

\* Position after a row's result has been recorded: line 95 is outside the
\* try block, so the sleep follows whether or not the call failed.
AfterRow(failed) == "sleep"

\* Lines 77-92: parse the reply, recover locally from a failed call,
\* flatten and buffer the result.
Parse ==
  /\ pc = "parse"
  /\ LET failed   == CallFailed(response)
         insights == Insights(response)
         f        == Flatten(insights)
         username == NormalizeCell(df.rows[index + 1][username_col])
         warned   == IF failed
                     THEN Append(log, RowEvent("warning", index + 1, username))
                     ELSE log
     IN  IF f.raised
         THEN /\ pc' = "failed"
              /\ log' = Append(warned, Event("error", "critical", 0))
              /\ inbox' = Append(inbox, "error")
              /\ results' = results
         ELSE /\ pc' = AfterRow(failed)
              /\ log' = warned
              /\ inbox' = inbox
              /\ results' = RecordResult(results, f.flat)
  /\ response' = NoResponse
  /\ UNCHANGED <<is_running, stop_button, df, index, trace, output, stop_at>>
  /\ UNCHANGED <<output_filepath, stop_point>>
  /\ UNCHANGED fixed

\* Line 95: time.sleep(3)
Pause ==
  /\ pc = "sleep"
  /\ trace' = Append(trace, Sleep(SleepSeconds))
  /\ pc' = "check"
  /\ UNCHANGED <<is_running, stop_button, inbox, df, index, response,
                 results, log, output, stop_at>>
  /\ UNCHANGED <<output_filepath, stop_point>>
  /\ UNCHANGED fixed

\* Lines 97-106: assemble and write the output, then emit finished; a
\* failing to_csv goes to the outer handler and leaves no file.
Write ==
  /\ pc = "write"
  /\ output_filepath' = OutputPath(input_filepath)
  /\ \/ /\ output' = File(Concat(df, ResultsFrame(results)))
        /\ log' = Append(log, Event("finished", "finished", 0))
        /\ inbox' = Append(inbox, "finished")
        /\ pc' = "finished"
     \/ /\ Critical
        /\ output' = output
  /\ UNCHANGED <<is_running, stop_button, df, index, response, results,
                 trace, stop_at, stop_point>>
  /\ UNCHANGED fixed

(* ------------------------------------------------------------------ *)
(* The caller (PersonaScopeApp)                                        *)
(* ------------------------------------------------------------------ *)

\* Phase of the run at this moment: before the first row has been taken
\* from df.iterrows(), inside the loop, past the loop, or returned.
Phase ==
  IF pc \in Terminal THEN "after"
  ELSE IF pc = "write" THEN "after_rows"
  ELSE IF index = -1 THEN "before_rows"
  ELSE "in_rows"

\* stop_analysis (lines 237-241), reachable while the Stop button is
\* enabled: clear the flag, disable the button.
StopAnalysis ==
  /\ stop_button
  /\ is_running' = FALSE
  /\ stop_button' = FALSE
  /\ stop_at' = Phase
  /\ stop_point' = [pc |-> pc, calls |-> Len(Calls)]
  /\ UNCHANGED <<pc, inbox, df, index, response, results, log, trace, output>>
  /\ UNCHANGED <<output_filepath>>
  /\ UNCHANGED fixed

\* analysis_finished / analysis_error (lines 246-254) run on the caller's
\* thread when the queued signal is delivered; both end in reset_ui_state,
\* which disables the Stop button.
DeliverTerminal ==
  /\ inbox # <<>>
  /\ inbox' = Tail(inbox)
  /\ stop_button' = FALSE
  /\ UNCHANGED <<pc, is_running, df, index, response, results, log, trace,
                 output, stop_at>>
  /\ UNCHANGED <<output_filepath, stop_point>>
  /\ UNCHANGED fixed

Next ==
  \/ Configure
  \/ Load
  \/ CheckColumns
  \/ Checkpoint
  \/ Request
  \/ Reply
  \/ Parse
  \/ Pause
  \/ Write
  \/ StopAnalysis
  \/ DeliverTerminal

Spec == Init /\ [][Next]_vars

\* A step of the worker's thread, or the collaborator's answer to the call
\* in flight.
WorkerStep ==
  Configure \/ Load \/ CheckColumns \/ Checkpoint \/ Request \/ Reply
    \/ Parse \/ Pause \/ Write

\* The run under a scheduler that keeps running the started thread, with a
\* collaborator that answers every call: run() is the slot of
\* thread.started (lines 228, 235) and blocks only in generate_content
\* (line 77) and time.sleep (line 95).
LiveSpec == Spec /\ WF_vars(WorkerStep)

(* ------------------------------------------------------------------ *)
(* The output path as a function of the input path                     *)
(* ------------------------------------------------------------------ *)

\* A worker constructed with any of the input paths, at the final write.
PathInit ==
  /\ pc = "write"
  /\ is_running = TRUE
  /\ stop_button = TRUE
  /\ inbox = <<>>
  /\ df = DataFrame({fullname_col, username_col}, 0)
  /\ index = -1
  /\ response = NoResponse
  /\ results = <<>>
  /\ log = <<>>
  /\ trace = <<>>
  /\ output = NoFile
  /\ stop_at = "never"
  /\ stop_point = NotStopped
  /\ input_filepath \in InputPaths
  /\ output_filepath = NoPath
  /\ workers = <<>>
  /\ ui = UiInit
  /\ signals = <<>>

PathNext == Write

PathSpec == PathInit /\ [][PathNext]_vars

(* ------------------------------------------------------------------ *)
(* The session: several runs started and stopped from the window       *)
(* ------------------------------------------------------------------ *)

\* A Worker as start_analysis leaves it (lines 226-235): constructed with
\* is_running True, moved to a fresh QThread that has been started.
\* assigned counts the assignments made to is_running after construction.
NewWorker ==
  [pc |-> "configure", is_running |-> TRUE, index |-> -1, total_rows |-> 0,
   thread |-> "running", assigned |-> 0]

\* The worker continues at position q.
At(w, q) == [w |-> [w EXCEPT !.pc = q], sig |-> "none"]

\* The worker emits the terminal signal sig and returns.
Emit(w, sig) ==
  [w |-> [w EXCEPT !.pc = IF sig = "finished" THEN "finished" ELSE "failed"],
   sig |-> sig]

\* The control flow of Worker.run (lines 27-109) for one worker: the
\* steps it can take from its position, each with the signal it emits.
RunSteps(w) ==
  CASE w.pc = "configure" -> {At(w, "load"), Emit(w, "error")}
    [] w.pc = "load" ->
         { At([w EXCEPT !.total_rows = n], "columns") :
             n \in 0..MaxSessionRows }
           \cup {Emit(w, "error")}
    [] w.pc = "columns" -> {At(w, "check"), Emit(w, "error")}
    [] w.pc = "check" ->
         IF w.index + 1 >= w.total_rows
         THEN {At(w, "write")}
         ELSE IF ~w.is_running
              THEN {At([w EXCEPT !.index = w.index + 1], "cancelled")}
              ELSE {At([w EXCEPT !.index = w.index + 1], "body")}
    [] w.pc = "body"  -> {At(w, "await")}
    [] w.pc = "await" -> {At(w, "parse")}
    [] w.pc = "parse" -> {At(w, "sleep"), Emit(w, "error")}
    [] w.pc = "sleep" -> {At(w, "check")}
    [] w.pc = "write" -> {Emit(w, "finished"), Emit(w, "error")}
    [] OTHER -> {}

\* A step of the thread of worker i.
Run(i) ==
  /\ ui.alive
  /\ \E s \in RunSteps(workers[i]) :
       /\ workers' = [workers EXCEPT ![i] = s.w]
       /\ signals' = IF s.sig = "none" THEN signals
                     ELSE Append(signals, [sig |-> s.sig, from |-> i])
  /\ UNCHANGED ui
  /\ UNCHANGED run_vars

\* reset_ui_state (lines 256-259)
reset_ui_state(u) ==
  [u EXCEPT !.run_button = TRUE, !.stop_button = FALSE, !.file_button = TRUE]

\* browse_file (lines 190-213), reachable while the Browse button is
\* enabled: the dialog is cancelled, or a file is chosen and its headers
\* are read (some, none) or cannot be read.
browse_file ==
  /\ ui.alive /\ ui.file_button
  /\ \E outcome \in {"cancelled", "headers", "no_headers", "unreadable"} :
       ui' = CASE outcome = "cancelled"  -> ui
               [] outcome = "headers"    ->
                    [ui EXCEPT !.combos = TRUE, !.run_button = TRUE]
               [] outcome = "no_headers" ->
                    [ui EXCEPT !.combos = FALSE, !.run_button = TRUE]
               [] OTHER -> [ui EXCEPT !.run_button = FALSE]
  /\ UNCHANGED <<workers, signals>>
  /\ UNCHANGED run_vars

\* What becomes of the process when start_analysis rebinds self.thread
\* and self.worker (lines 226-227) while the previous QThread has not been
\* told to quit: the previous objects lose their last reference while
\* their thread is running, which the library may survive or abort on.
Rebind(previous_running) ==
  IF previous_running THEN {"survives", "aborts"} ELSE {"survives"}

\* start_analysis (lines 215-235), reachable while the Run button is
\* enabled.
start_analysis ==
  /\ ui.alive /\ ui.run_button
  /\ Len(workers) < MaxWorkers
  /\ \E api_key \in {"", "key"} :
       IF api_key = "" \/ ~ui.combos
       THEN UNCHANGED <<workers, ui>>
       ELSE \E outcome \in Rebind(ui.worker # 0 /\
                                   workers[ui.worker].thread = "running") :
              IF outcome = "aborts"
              THEN /\ ui' = [ui EXCEPT !.alive = FALSE]
                   /\ workers' = workers
              ELSE /\ workers' = Append(workers, NewWorker)
                   /\ ui' = [ui EXCEPT !.run_button = FALSE,
                                       !.stop_button = TRUE,
                                       !.file_button = FALSE,
                                       !.worker = Len(workers) + 1]
  /\ UNCHANGED signals
  /\ UNCHANGED run_vars

\* Variant in which stop_analysis leaves the Stop button enabled.
StopButtonAfterStop_Enabled == TRUE

\* Whether the Stop button is enabled after stop_analysis (lines 239-240).
StopButtonAfterStop == FALSE

\* stop_analysis (lines 237-241), reachable while the Stop button is
\* enabled.
stop_analysis ==
  /\ ui.alive /\ ui.stop_button
  /\ workers' = IF ui.worker # 0
                THEN [workers EXCEPT ![ui.worker].is_running = FALSE,
                                     ![ui.worker].assigned = @ + 1]
                ELSE workers
  /\ ui' = [reset_ui_state(ui) EXCEPT !.stop_button = StopButtonAfterStop]
  /\ UNCHANGED signals
  /\ UNCHANGED run_vars

\* The slots connected to worker.finished (lines 230, 233), run on the
\* caller's thread when the queued signal is delivered: analysis_finished
\* (lines 246-250) and the quit of that worker's thread.
analysis_finished ==
  /\ ui.alive
  /\ signals # <<>> /\ Head(signals).sig = "finished"
  /\ ui' = reset_ui_state(ui)
  /\ workers' = [workers EXCEPT ![Head(signals).from].thread = "quit"]
  /\ signals' = Tail(signals)
  /\ UNCHANGED run_vars

\* The slot connected to worker.error (line 231): analysis_error
\* (lines 252-254).
analysis_error ==
  /\ ui.alive
  /\ signals # <<>> /\ Head(signals).sig = "error"
  /\ ui' = reset_ui_state(ui)
  /\ signals' = Tail(signals)
  /\ UNCHANGED workers
  /\ UNCHANGED run_vars

AppNext ==
  \/ browse_file
  \/ start_analysis
  \/ stop_analysis
  \/ analysis_finished
  \/ analysis_error
  \/ \E i \in 1..Len(workers) : Run(i)

AppSpec == Init /\ [][AppNext]_vars

(* ------------------------------------------------------------------ *)
(* Properties                                                          *)
(* ------------------------------------------------------------------ *)

\* The flattened result carries the error marker.
HasError(flat) == "error" \in DOMAIN flat

\* The flattened result carries all four value/confidence pairs.
AllFour(flat) ==
  \A a \in Attributes :
    /\ (a \o "_value") \in DOMAIN flat
    /\ (a \o "_confidence") \in DOMAIN flat

\* Positions in the log of the events that satisfy P.
Emitted(P(_)) == { i \in 1..Len(log) : P(log[i]) }

IsFinished(e)  == e.sig = "finished"
IsError(e)     == e.sig = "error"
IsStopped(e)   == e.sig = "progress" /\ e.kind = "stopped"
IsTerminal(e)  == IsFinished(e) \/ IsError(e) \/ IsStopped(e)
IsPerRow(e)    == e.row > 0

\* Positions of the per-row loop.
InLoop == {"check", "body", "await", "parse", "sleep"}

\* The reply parses to an object that has the four attributes, each an
\* object, and no error member.
Conforming(resp) ==
  /\ ~CallFailed(resp)
  /\ LET doc == Insights(resp)
     IN  /\ doc.type = "dict"
         /\ "error" \notin DOMAIN doc.fields
         /\ \A a \in Attributes : a \in DOMAIN doc.fields /\ doc.fields[a].isdict

\* C1: a run that leaves the loop without cancellation has buffered exactly
\* one result per input row, failed rows included, and the output it
\* writes has exactly as many rows as the input.
C1_OneOutputRowPerInputRow ==
  /\ pc \in {"write", "finished"} => Len(results) = len(df)
  /\ output.written => Len(output.rows) = len(df) /\ Len(results) = len(df)

C1_Witness ==
  /\ pc = "finished" /\ output.written /\ is_running
  /\ len(df) >= 2
  /\ \E i \in 1..Len(results) : HasError(results[i])
  /\ \E i \in 1..Len(results) : AllFour(results[i])

\* C2: every flattened result in the buffer has either all four
\* value/confidence pairs or the error key, never both and never neither.
C2_ExactlyOneOfPairsOrError ==
  \A i \in 1..Len(results) : AllFour(results[i]) # HasError(results[i])

\* C3: a reply that raises or is not JSON after fence stripping does not
\* end the run: the step that handles it emits the warning for that row,
\* buffers {error: message} and goes on to the sleep; after the sleep the
\* loop continues, so that the next row is taken unless the run was
\* cancelled; a conforming reply is buffered with all its flattened fields.
C3_RowFailureIsolated ==
  /\ [][ (pc = "parse" /\ CallFailed(response)) =>
           /\ pc' = "sleep"
           /\ results' = Append(results, [k \in {"error"} |-> ErrorMessage(response)])
           /\ log' = Append(log, RowEvent("warning", index + 1,
                  trace[Len(trace)].username))
           /\ inbox' = inbox /\ output' = output ]_pc
  /\ [][ (pc = "parse" /\ Conforming(response)) =>
           /\ pc' = "sleep"
           /\ Len(results') = Len(results) + 1
           /\ AllFour(results'[Len(results')])
           /\ ~HasError(results'[Len(results')]) ]_pc
  /\ [][ pc = "sleep" => pc' = "check" ]_pc
  /\ [][ (pc = "check" /\ is_running /\ index + 1 < len(df)) =>
           pc' = "body" /\ index' = index + 1 ]_pc

\* Three rows, the second failed, the run finished: three output rows, the
\* second with the error marker, the first and third with all fields.
C3_Witness ==
  /\ pc = "finished" /\ output.written
  /\ len(df) = 3 /\ Len(output.rows) = 3
  /\ HasError(results[2]) /\ AllFour(results[1]) /\ AllFour(results[3])
  /\ output.rows[2].derived["error"] = "JSONDecodeError"
  /\ \E i \in 1..Len(log) : log[i] = RowEvent("warning", 2, "ann_l")

\* C4: once the loop has begun, a step of the loop never ends the run with
\* an error event: the loop is left only by cancellation or for the final
\* write.
C4_NoReplyAbortsTheRun ==
  [][ (pc \in InLoop) => (pc' \in InLoop \cup {"cancelled", "write"}) ]_pc

\* C5: if stop_analysis set the flag after the run started and before it
\* terminated, no output file is written and no finished event is emitted.
C5_NoOutputOnceStopped ==
  stop_at \in {"before_rows", "in_rows"} =>
    ~output.written /\ Emitted(IsFinished) = {}

\* C6: a checkpoint of row k (index k < N) that finds the flag cleared
\* emits the cancellation notice and returns: nothing is buffered, written
\* or announced as finished, and the buffer holds the k rows processed
\* before.
C6_CancelAtCheckpoint ==
  /\ [][ (pc = "check" /\ index + 1 < len(df) /\ ~is_running) =>
           /\ pc' = "cancelled"
           /\ index' = index + 1
           /\ log' = Append(log, Event("progress", "stopped", 0))
           /\ results' = results /\ output' = output /\ inbox' = inbox ]_pc
  /\ [](pc = "cancelled" =>
           /\ ~output.written
           /\ Emitted(IsFinished) = {}
           /\ index \in 0..(len(df) - 1)
           /\ Len(results) = index
           /\ IsStopped(log[Len(log)]))

C6_Witness ==
  pc = "cancelled" /\ index >= 1 /\ Len(results) = index /\ ~output.written

\* C7: if the flag was set before the first row began, then for every
\* loaded dataset with the two columns the run ends with no output file
\* and the cancellation notice as its only terminal event.
C7_StopBeforeFirstRow ==
  ( /\ stop_at = "before_rows"
    /\ pc \in Terminal
    /\ df # NoFrame
    /\ fullname_col \in df.columns /\ username_col \in df.columns ) =>
      /\ ~output.written
      /\ Emitted(IsFinished) = {}
      /\ Emitted(IsError) = {}
      /\ Cardinality(Emitted(IsStopped)) = 1

\* C8: when a requested column is absent from the loaded headers, the run
\* has failed once the column test is passed: no inference call, exactly
\* one error event, no per-row event, no output file, no finished event.
C8_ColumnErrorBeforeAnyCall ==
  ( /\ df # NoFrame
    /\ (fullname_col \notin df.columns \/ username_col \notin df.columns)
    /\ pc # "columns" ) =>
      /\ pc = "failed"
      /\ trace = <<>>
      /\ Cardinality(Emitted(IsError)) = 1
      /\ log[Len(log)] = Event("error", "column_error", 0)
      /\ Emitted(IsPerRow) = {}
      /\ ~output.written
      /\ Emitted(IsFinished) = {}

C8_Witness ==
  /\ pc = "failed" /\ len(df) >= 1
  /\ fullname_col \in df.columns /\ username_col \notin df.columns
  /\ log[Len(log)] = Event("error", "column_error", 0)

\* C9: a run emits no terminal notification while it is running and
\* exactly one when it has terminated: finished for a completed run, error
\* for a failed one, the cancellation notice for a cancelled one.
C9_OneTerminalNotification ==
  /\ pc \notin Terminal => Emitted(IsTerminal) = {}
  /\ pc \in Terminal =>
       /\ Emitted(IsTerminal) = {Len(log)}
       /\ pc = "finished"  => IsFinished(log[Len(log)])
       /\ pc = "failed"    => IsError(log[Len(log)])
       /\ pc = "cancelled" => IsStopped(log[Len(log)])

\* A run whose final write failed after rows were processed.
C9_Witness ==
  /\ pc = "failed" /\ len(df) >= 1 /\ Len(results) = len(df)
  /\ Emitted(IsTerminal) = {Len(log)}

\* C10: calls and sleeps alternate, starting with a call, so that exactly
\* one sleep of the fixed length separates two consecutive calls; every
\* buffered row, failed or not, has been followed by its sleep once the
\* worker has left the sleep position.
C10_SleepAfterEveryRow ==
  /\ \A i \in 1..Len(trace) :
       IF i % 2 = 1
       THEN trace[i].op = "call"
       ELSE trace[i].op = "sleep" /\ trace[i].seconds = SleepSeconds
  /\ Cardinality({ i \in 1..Len(trace) : trace[i].op = "sleep" })
       = Len(results) - (IF pc = "sleep" THEN 1 ELSE 0)

\* A second call issued after a failed first row and its sleep.
C10_Witness ==
  /\ Len(trace) >= 3
  /\ trace[2].op = "sleep" /\ trace[3].op = "call"
  /\ HasError(results[1])

\* The cell as the worker must use it: "" for a missing cell.
Expected(cell) == IF cell = NaN THEN "" ELSE cell

\* C11: the prompt of the call made for row i embeds the full name and the
\* username of row i with a missing cell replaced by the empty string, and
\* so do the per-row progress messages: the null marker appears in neither.
C11_MissingCellsNormalized ==
  /\ \A i \in 1..Len(Calls) :
       /\ Calls[i].full_name = Expected(df.rows[i][fullname_col])
       /\ Calls[i].username = Expected(df.rows[i][username_col])
       /\ Calls[i].full_name # NaN /\ Calls[i].username # NaN
  /\ \A j \in Emitted(IsPerRow) :
       /\ log[j].username = Expected(df.rows[log[j].row][username_col])
       /\ log[j].username # NaN

\* Calls were made for a row without a full name and a row without a
\* username, and the latter's call failed.
C11_Witness ==
  /\ \E i \in 1..Len(Calls) :
       df.rows[i][fullname_col] = NaN /\ Calls[i].full_name = ""
  /\ \E i \in 1..Len(Calls) :
       df.rows[i][username_col] = NaN /\ Calls[i].username = ""
  /\ \E j \in Emitted(IsPerRow) :
       /\ log[j].kind = "warning" /\ log[j].username = ""
       /\ df.rows[log[j].row][username_col] = NaN

\* C12: the output path lies in the directory of the input path and is
\* named by the input's base name without its extension, followed by
\* _output and .csv; data/users.xlsx gives data/users_output.csv; the
\* output path differs from the input path.
C12_OutputPathDerived ==
  output_filepath # NoPath =>
    /\ Dirname(output_filepath) = Dirname(input_filepath)
    /\ Basename(output_filepath)
         = SplitExt(Basename(input_filepath))[1] \o <<"_output", ".", "csv">>
    /\ output_filepath # input_filepath
    /\ input_filepath = <<"data", "/", "users", ".", "xlsx">>
         => output_filepath = <<"data", "/", "users", "_output", ".", "csv">>

\* The scenario: data/users.xlsx has been written to data/users_output.csv.
C12_Witness ==
  /\ input_filepath = <<"data", "/", "users", ".", "xlsx">>
  /\ output_filepath = <<"data", "/", "users", "_output", ".", "csv">>
  /\ output.written

\* The workers that are executing Worker.run.
Executing == { i \in 1..Len(workers) : workers[i].pc \notin Terminal }

\* The workers whose inference request is outstanding.
Outstanding == { i \in 1..Len(workers) : workers[i].pc = "await" }

\* C13: at any time at most one worker is executing Worker.run and at most
\* one inference request is outstanding.
C13_OneRunAtATime ==
  Cardinality(Executing) <= 1 /\ Cardinality(Outstanding) <= 1

\* C14: cancellation is cooperative and bounded.  Setting the flag changes
\* nothing else of the run, a call in flight is left only through its
\* reply, after the flag is set the worker issues at most one further call,
\* and only for the row whose checkpoint it had passed when the flag was
\* set, a checkpoint reached with the flag set never starts a row, and
\* the worker then terminates.
C14_CooperativeBoundedCancel ==
  /\ [][ (is_running /\ ~is_running') =>
           UNCHANGED <<pc, index, response, results, log, trace, output>> ]_vars
  /\ [][ (pc = "await") => (pc' = "parse") ]_pc
  /\ [][ (pc = "check" /\ ~is_running) => (pc' \in {"cancelled", "write"}) ]_pc
  /\ [](~is_running =>
          /\ Len(Calls) <= stop_point.calls + 1
          /\ Len(Calls) > stop_point.calls => stop_point.pc = "body")
  /\ (~is_running ~> (pc \in Terminal))

\* The flag was set after the checkpoint of row 2 had passed and before its
\* call was issued; the call was issued and answered, and the run stopped
\* at the checkpoint of row 3.
C14_Witness ==
  /\ stop_point = [pc |-> "body", calls |-> 1]
  /\ Len(Calls) = 2
  /\ pc = "cancelled"
  /\ index = 2

\* C15: the flag of every worker starts True, is assigned at most once, by
\* stop_analysis and never by a step of the worker, and once False stays
\* False.
C15_FlagMonotonicSingleWriter ==
  /\ [](\A i \in 1..Len(workers) :
          /\ workers[i].assigned <= 1
          /\ workers[i].is_running <=> workers[i].assigned = 0)
  /\ [][ /\ Len(workers') > Len(workers) =>
              /\ workers'[Len(workers')].is_running
              /\ workers'[Len(workers')].assigned = 0
         /\ \A i \in 1..Len(workers) :
              /\ ~workers[i].is_running => ~workers'[i].is_running
              /\ workers'[i].assigned # workers[i].assigned =>
                   /\ ui.stop_button /\ ~ui'.stop_button
                   /\ ui.worker = i
                   /\ workers'[i].pc = workers[i].pc
                   /\ workers'[i].index = workers[i].index ]_workers

\* Worker 1 was stopped and has gone on to its checkpoint with the flag
\* False; worker 2, started afterwards, has its flag True.
C15_Witness ==
  /\ Len(workers) = 2
  /\ ~workers[1].is_running /\ workers[1].assigned = 1
  /\ workers[1].pc = "cancelled"
  /\ workers[2].is_running /\ workers[2].pc = "await"

IsFound(e)     == e.sig = "progress" /\ e.kind = "found"
IsAnalyzing(e) == e.sig = "progress" /\ e.kind = "analyzing"
IsWarning(e)   == e.sig = "progress" /\ e.kind = "warning"

\* C16: in the order of emission, the row count is reported before every
\* per-row event, the j-th "analyzing" event names row j, a warning comes
\* after the "analyzing" event of its row and before that of the next row,
\* and nothing follows a finished or error event.
C16_NotificationOrder ==
  /\ \A j \in Emitted(IsPerRow) : \E k \in Emitted(IsFound) : k < j
  /\ \A j, k \in Emitted(IsAnalyzing) : j < k => log[j].row < log[k].row
  /\ \A j \in Emitted(IsAnalyzing) :
       log[j].row = Cardinality({ k \in Emitted(IsAnalyzing) : k <= j })
  /\ \A j \in Emitted(IsWarning) :
       /\ \E k \in Emitted(IsAnalyzing) : k < j /\ log[k].row = log[j].row
       /\ \A k \in Emitted(IsAnalyzing) : log[k].row > log[j].row => j < k
  /\ \A j \in 1..Len(log) :
       (IsFinished(log[j]) \/ IsError(log[j])) => j = Len(log)

\* A finished run of three rows in which the call of row 2 failed: the
\* warning of row 2 lies between the "analyzing" events of rows 2 and 3.
C16_Witness ==
  /\ pc = "finished" /\ len(df) = 3
  /\ \E j \in Emitted(IsWarning) :
       /\ log[j].row = 2
       /\ \E k \in Emitted(IsAnalyzing) : k > j /\ log[k].row = 3
  /\ IsFinished(log[Len(log)])

\* C17: one call per processed row, in row order, none repeated: the i-th
\* call is the one built from row i, the number of calls is the number of
\* rows whose checkpoint has been passed, a run that reaches the final
\* write over N rows has issued N calls, and a run cancelled at the
\* checkpoint of the row with index k has issued k calls.
C17_OneCallPerProcessedRow ==
  /\ Len(Calls) <= len(df)
  /\ \A i \in 1..Len(Calls) :
       Calls[i] = Call(Expected(df.rows[i][fullname_col]),
                       Expected(df.rows[i][username_col]))
  /\ pc = "body" => Len(Calls) = index
  /\ pc \in {"await", "parse", "sleep", "check"} => Len(Calls) = index + 1
  /\ pc \in {"write", "finished"} => Len(Calls) = len(df)
  /\ pc = "cancelled" => Len(Calls) = index

\* A run cancelled at the checkpoint of the row with index 2 after two
\* calls, one of which had failed.
C17_Witness ==
  /\ pc = "cancelled" /\ index = 2
  /\ Len(Calls) = 2
  /\ Emitted(IsWarning) # {}

\* The derived fields of a buffered result under the columns cols.
Derived(flat, cols) ==
  [c \in cols |-> IF c \in DOMAIN flat THEN flat[c] ELSE NaN]

\* C18: the buffer holds k entries at the checkpoint of the row with index
\* k; the reply in hand is the reply to the call of the current row, and
\* its flattening is appended at that row's position; the written output
\* pairs input row i with the derived fields of buffer entry i, for every
\* row, failed or not.
C18_OutputRowAlignedWithItsCall ==
  /\ [](pc = "check" => Len(results) = index + 1)
  /\ [](pc \in {"body", "await", "parse"} =>
          Len(results) = index /\ Len(Calls) \in {index, index + 1})
  /\ [][ (pc = "await") =>
           (Len(Calls) = index + 1 /\ results' = results) ]_<<pc, results>>
  /\ [][ (pc = "parse" /\ pc' # "failed") =>
           /\ Len(Calls) = index + 1
           /\ results' = Append(results, Flatten(Insights(response)).flat)
           /\ Len(results') = index + 1
           /\ index' = index ]_<<pc, results>>
  /\ [](output.written =>
          /\ Len(output.rows) = len(df)
          /\ \A i \in 1..len(df) :
               /\ output.rows[i].input = df.rows[i]
               /\ output.rows[i].derived =
                    Derived(results[i],
                            UNION { DOMAIN results[j] : j \in 1..Len(results) }))

\* A written output of three rows in which the call of row 2 failed: row 2
\* carries the error and no pair, rows 1 and 3 carry their pairs.
C18_Witness ==
  /\ output.written /\ len(df) = 3
  /\ HasError(results[2]) /\ AllFour(results[1]) /\ AllFour(results[3])
  /\ output.rows[2].derived["error"] # NaN
  /\ output.rows[2].derived["user_persona_value"] = NaN
  /\ output.rows[1].derived["error"] = NaN
  /\ output.rows[3].derived["user_persona_value"] # NaN

\* The signals of worker i that the caller's thread has not yet handled.
Pending(i) == { k \in 1..Len(signals) : signals[k].from = i }

\* C19: once a run has returned and every signal it emitted has been
\* handled, nothing more can happen on its behalf, so its thread has been
\* told to quit by then.
C19_TerminatedRunReleasesThread ==
  \A i \in 1..Len(workers) :
    (workers[i].pc \in Terminal /\ Pending(i) = {}) =>
      workers[i].thread = "quit"

====
